---- MODULE Spec2Model ----
(***************************************************************************)
(* Trade-Alerts: the entry-point monitoring core.                          *)
(*   PriceMonitor  (src/src/price_monitor.py)  rate lookup, cache, hit     *)
(*   AlertHistory  (src/src/alert_history.py)  the alert ledger            *)
(*   AlertManager  (src/src/alert_manager.py)  the notifier                *)
(*   TradeAlertSystem (src/main.py)            main loop, analysis cycle   *)
(*                                                                         *)
(* Prices are exact rationals [n, d] in lowest terms; Python's float       *)
(* rounding is not modelled.  A string is the sequence of its symbols,     *)
(* where a currency code ("EUR") and the slash ("/") are one symbol each.  *)
(***************************************************************************)
EXTENDS Integers, Sequences, FiniteSets, TLC

VARIABLES
    opportunities,   \* TradeAlertSystem.opportunities        main.py:52
    history,         \* AlertHistory.history (in memory)      alert_history.py:27
    history_file,    \* the JSON document behind history_file alert_history.py:26
    cache,           \* PriceMonitor.cache (dict leg -> rate) price_monitor.py:20
    cache_age,       \* time.time() - PriceMonitor.cache_time, saturated at cache_ttl
    enabled,         \* AlertManager.enabled                  alert_manager.py:19
    today,           \* datetime.now(), the value sent_at is taken from
    pc,              \* position of the main loop
    i,               \* index of the opportunity the pass is at (for opp in ...)
    current_price,   \* local of _check_entry_points          main.py:219
    last,            \* what the latest step of the main loop did (observation)
    delivered,       \* opportunities notified with success and recorded in this run (observation)
    call,            \* the latest direct call of a PriceMonitor method and its result
    current_time,    \* datetime.now(pytz.UTC), seconds of the day   main.py:82
    last_analysis_time  \* TradeAlertSystem.last_analysis_time        main.py:53

vars == <<opportunities, history, history_file, cache, cache_age, enabled, today,
          pc, i, current_price, last, delivered, call, current_time,
          last_analysis_time>>

----------------------------------------------------------------------------
(* Float arithmetic, as exact rationals in lowest terms.                   *)

RECURSIVE GCD(_, _)
GCD(a, b) == IF b = 0 THEN a ELSE GCD(b, a % b)

Rat(n, d) == LET g == GCD(n, d) IN [n |-> n \div g, d |-> d \div g]

RatAdd(a, b) == Rat(a.n * b.d + b.n * a.d, a.d * b.d)

RatSub(a, b) == Rat(a.n * b.d - b.n * a.d, a.d * b.d)

RatMul(a, b) == Rat(a.n * b.n, a.d * b.d)

RatDiv(a, b) == Rat(a.n * b.d, a.d * b.n)

RatLeq(a, b) == a.n * b.d <= b.n * a.d

RatMax(a, b) == IF RatLeq(b, a) THEN a ELSE b

Min(a, b) == IF a <= b THEN a ELSE b

\* Python's None where a float is expected
None == [n |-> 0, d |-> 0]

\* Python truthiness of an Optional[float]: None and 0.0 are false
Truthy(x) == x # None /\ x.n # 0

----------------------------------------------------------------------------
(* Strings.                                                                *)

EUR == <<"EUR">>
SLASH == <<"/">>

\* a value that is not a str (an int, None, ...)
NonString == <<"<not a str>">>

\* str.split('/'): the runs between the slashes, empty runs included
RECURSIVE SplitSlash(_, _, _)
SplitSlash(s, k, cur) ==
    IF k > Len(s) THEN <<cur>>
    ELSE IF s[k] = "/" THEN <<cur>> \o SplitSlash(s, k + 1, <<>>)
    ELSE SplitSlash(s, k + 1, Append(cur, s[k]))

Split(s) == SplitSlash(s, 1, <<>>)

\* 'JPY' in pair
ContainsJPY(pair) == \E k \in DOMAIN pair : pair[k] = "JPY"

----------------------------------------------------------------------------
(* PriceMonitor                                                            *)

cache_ttl == 60

tolerance_pips == 10

\* tolerance_percent = 0.1
tolerance_percent == Rat(1, 10)

\* an HTTP exchange with the feed: it raises, answers without the rate, or
\* answers {"rates": {quote: rate}}
ResponseError == [kind |-> "error", rate |-> None]
ResponseMissing == [kind |-> "missing", rate |-> None]
ResponseRate(r) == [kind |-> "rates", rate |-> r]

EmptyCache == [k \in {} |-> None]

\* a leg lookup whose successful fetch leaves cache_time as it was
_get_frankfurter_rate_keeps_time(c, age, base, quote, d, resp) ==
    LET cache_key == base \o SLASH \o quote
        elapsed == Min(age + d, cache_ttl)
    IN  IF cache_key \in DOMAIN c /\ elapsed < cache_ttl
        THEN [rate |-> c[cache_key], cache |-> c, age |-> elapsed, fetched |-> FALSE]
        ELSE IF resp.kind = "rates"
        THEN [rate |-> resp.rate,
              cache |-> [k \in DOMAIN c \cup {cache_key} |->
                            IF k = cache_key THEN resp.rate ELSE c[k]],
              age |-> elapsed, fetched |-> TRUE]
        ELSE [rate |-> None, cache |-> c, age |-> elapsed, fetched |-> TRUE]

\* _get_frankfurter_rate(base, quote), called d seconds after the previous
\* clock reading, the feed answering resp if it is asked
_get_frankfurter_rate(c, age, base, quote, d, resp) ==
    LET cache_key == base \o SLASH \o quote
        elapsed == Min(age + d, cache_ttl)
    IN  IF cache_key \in DOMAIN c /\ elapsed < cache_ttl
        THEN [rate |-> c[cache_key], cache |-> c, age |-> elapsed, fetched |-> FALSE]
        ELSE IF resp.kind = "rates"
        THEN [rate |-> resp.rate,
              cache |-> [k \in DOMAIN c \cup {cache_key} |->
                            IF k = cache_key THEN resp.rate ELSE c[k]],
              age |-> 0, fetched |-> TRUE]
        ELSE [rate |-> None, cache |-> c, age |-> elapsed, fetched |-> TRUE]

\* the quotient taken the other way round
cross_rate_inverted(rate_base, rate_quote) ==
    IF Truthy(rate_base) /\ Truthy(rate_quote)
    THEN RatDiv(rate_base, rate_quote)
    ELSE None

\* rate_quote / rate_base if rate_base and rate_quote, else None
\* (get_rate, the cross-rate branch)
cross_rate(rate_base, rate_quote) ==
    IF Truthy(rate_base) /\ Truthy(rate_quote)
    THEN RatDiv(rate_quote, rate_base)
    ELSE None

\* the cache key a leg lookup answered from the cache, if it did
Served(r, base, quote) == IF r.fetched THEN {} ELSE {base \o SLASH \o quote}

\* the cache key a leg lookup wrote, if it did
Written(r, base, quote, resp) ==
    IF r.fetched /\ resp.kind = "rates" THEN {base \o SLASH \o quote} ELSE {}

\* the try block of get_rate: raised tells that it raised (the unpacking of
\* pair.split('/'), or split itself on a value that is no str); rate_base and
\* rate_quote are the leg rates of a cross pair; feed_failed tells that a
\* request was made and raised or answered without the rate; served holds the
\* cache keys answered from the cache, written those the call wrote
get_rate_try(c, age, pair, d1, resp1, d2, resp2) ==
    LET parts == Split(pair)
        failed == [rate |-> None, cache |-> c, age |-> age, raised |-> TRUE,
                   cross |-> FALSE, rate_base |-> None, rate_quote |-> None,
                   fetched |-> FALSE, feed_failed |-> FALSE,
                   served |-> {}, written |-> {}]
    IN  IF pair = NonString THEN failed
        ELSE IF Len(parts) # 2 THEN failed
        ELSE LET base == parts[1]
                 quote == parts[2]
             IN  IF base = EUR
                 THEN LET r == _get_frankfurter_rate(c, age, EUR, quote, d1, resp1)
                      IN  [rate |-> IF Truthy(r.rate) THEN r.rate ELSE None,
                           cache |-> r.cache, age |-> r.age, raised |-> FALSE,
                           cross |-> FALSE, rate_base |-> None, rate_quote |-> None,
                           fetched |-> r.fetched,
                           feed_failed |-> r.fetched /\ resp1.kind # "rates",
                           served |-> Served(r, EUR, quote),
                           written |-> Written(r, EUR, quote, resp1)]
                 ELSE IF quote = EUR
                 THEN LET r == _get_frankfurter_rate(c, age, EUR, base, d1, resp1)
                      IN  [rate |-> IF Truthy(r.rate) THEN RatDiv(Rat(1, 1), r.rate) ELSE None,
                           cache |-> r.cache, age |-> r.age, raised |-> FALSE,
                           cross |-> FALSE, rate_base |-> None, rate_quote |-> None,
                           fetched |-> r.fetched,
                           feed_failed |-> r.fetched /\ resp1.kind # "rates",
                           served |-> Served(r, EUR, base),
                           written |-> Written(r, EUR, base, resp1)]
                 ELSE LET rb == _get_frankfurter_rate(c, age, EUR, base, d1, resp1)
                          rq == _get_frankfurter_rate(rb.cache, rb.age, EUR, quote, d2, resp2)
                      IN  [rate |-> cross_rate(rb.rate, rq.rate),
                           cache |-> rq.cache, age |-> rq.age, raised |-> FALSE,
                           cross |-> TRUE, rate_base |-> rb.rate, rate_quote |-> rq.rate,
                           fetched |-> rb.fetched \/ rq.fetched,
                           feed_failed |-> \/ rb.fetched /\ resp1.kind # "rates"
                                           \/ rq.fetched /\ resp2.kind # "rates",
                           served |-> Served(rb, EUR, base) \cup Served(rq, EUR, quote),
                           written |-> Written(rb, EUR, base, resp1)
                                       \cup Written(rq, EUR, quote, resp2)]

\* get_rate without its except clause
get_rate_no_except(c, age, pair, d1, resp1, d2, resp2) ==
    LET t == get_rate_try(c, age, pair, d1, resp1, d2, resp2)
    IN  [rate |-> t.rate,
         propagated |-> t.raised,
         raised |-> t.raised, cache |-> t.cache, age |-> t.age, cross |-> t.cross,
         rate_base |-> t.rate_base, rate_quote |-> t.rate_quote, fetched |-> t.fetched,
         feed_failed |-> t.feed_failed, served |-> t.served, written |-> t.written]

\* get_rate(pair): the try block, and the except clause that logs and returns
\* None; propagated tells whether the caller sees an exception
get_rate(c, age, pair, d1, resp1, d2, resp2) ==
    LET t == get_rate_try(c, age, pair, d1, resp1, d2, resp2)
    IN  [rate |-> IF t.raised THEN None ELSE t.rate,
         propagated |-> FALSE,
         raised |-> t.raised, cache |-> t.cache, age |-> t.age, cross |-> t.cross,
         rate_base |-> t.rate_base, rate_quote |-> t.rate_quote, fetched |-> t.fetched,
         feed_failed |-> t.feed_failed, served |-> t.served, written |-> t.written]

\* a band that takes 0.0001 for the pip of every pair
tolerance_absolute_one_pip(pair, entry_price) ==
    RatMax(RatMul(Rat(tolerance_pips, 1), Rat(1, 10000)),
           RatMul(entry_price, RatDiv(tolerance_percent, Rat(100, 1))))

\* the tolerance band of check_entry_point
tolerance_absolute(pair, entry_price) ==
    LET pip_value == IF ContainsJPY(pair) THEN Rat(1, 100) ELSE Rat(1, 10000)
    IN  RatMax(RatMul(Rat(tolerance_pips, 1), pip_value),
               RatMul(entry_price, RatDiv(tolerance_percent, Rat(100, 1))))

\* check_entry_point from "Calculate tolerance" on: the comparison
entry_hit(pair, entry_price, direction, price) ==
    LET tol == tolerance_absolute(pair, entry_price)
    IN  IF direction = "BUY"
        THEN RatLeq(price, RatAdd(entry_price, tol))
        ELSE RatLeq(RatSub(entry_price, tol), price)

\* check_entry_point(pair, entry_price, direction) with the default
\* tolerances: price is its own local current_price
check_entry_point(c, age, pair, entry_price, direction, d1, resp1, d2, resp2) ==
    LET g == get_rate(c, age, pair, d1, resp1, d2, resp2)
    IN  [hit |-> IF g.propagated \/ ~Truthy(g.rate) THEN FALSE
                 ELSE entry_hit(pair, entry_price, direction, g.rate),
         propagated |-> g.propagated,
         price |-> g.rate, cache |-> g.cache, age |-> g.age, fetched |-> g.fetched,
         lookup |-> g]

----------------------------------------------------------------------------
(* AlertHistory                                                            *)

\* f"{entry:.5f}": entry rounded to 5 fractional digits, as a count of 0.00001
Round5(entry) ==
    LET g == GCD(100000, entry.d)
        s == 100000 \div g
        dd == entry.d \div g
    IN  (2 * entry.n * s + dd) \div (2 * dd)

\* a key that also takes the recommendation text in
_create_alert_key_with_text(opportunity) ==
    opportunity.pair \o <<"_", opportunity.direction, "_", Round5(opportunity.entry),
                          "_", opportunity.recommendation>>

\* a key that takes the entry as it is, without rounding it
_create_alert_key_unrounded(opportunity) ==
    opportunity.pair \o <<"_", opportunity.direction, "_", opportunity.entry>>

\* _create_alert_key: f"{pair}_{direction}_{entry:.5f}", the symbols of the
\* pair, of the direction and the rounded entry joined by "_"
_create_alert_key(opportunity) ==
    opportunity.pair \o <<"_", opportunity.direction, "_", Round5(opportunity.entry)>>

\* a row of the stored JSON array that is not an object: entry.get raises on it
BadRow == [nondict |-> TRUE]

IsDict(row) == "key" \in DOMAIN row

\* the for loop of has_alerted from row k on: "True", "False" or "raise"
RECURSIVE HasAlertedFrom(_, _, _)
HasAlertedFrom(h, key, k) ==
    IF k > Len(h) THEN "False"
    ELSE IF ~IsDict(h[k]) THEN "raise"
    ELSE IF h[k].key = key /\ h[k].sent THEN "True"
    ELSE HasAlertedFrom(h, key, k + 1)

\* a lookup that finds nothing
has_alerted_never(h, opportunity) == "False"

has_alerted(h, opportunity) == HasAlertedFrom(h, _create_alert_key(opportunity), 1)

\* the history file: absent, not parseable as JSON, or a JSON array of rows
FileMissing == [state |-> "missing", rows |-> <<>>]
FileCorrupt == [state |-> "corrupt", rows |-> <<>>]
FileOf(rows) == [state |-> "ok", rows |-> rows]

\* a load that never reads the file
_load_history_empty(f) == <<>>

\* _load_history: json.load of the file when it exists, [] when it is missing
\* or json.load raises
_load_history(f) == IF f.state = "ok" THEN f.rows ELSE <<>>

\* _save_history: open(..., 'w') fails and leaves the file as it was, or
\* json.dump fails on the truncated file, or the file holds the history
_save_history(h, f, io) ==
    IF io = "ok" THEN FileOf(h)
    ELSE IF io = "open_fails" THEN f
    ELSE FileCorrupt

\* a record that takes the append back when the file could not be written
record_alert_rollback(h, f, opportunity, price, now, io) ==
    LET entry == [key |-> _create_alert_key(opportunity),
                  pair |-> opportunity.pair,
                  entry |-> opportunity.entry,
                  direction |-> opportunity.direction,
                  current_price |-> price,
                  sent_at |-> now,
                  sent |-> TRUE]
        h2 == Append(h, entry)
    IN  IF io = "ok" THEN [history |-> h2, file |-> _save_history(h2, f, io)]
        ELSE [history |-> h, file |-> _save_history(h2, f, io)]

record_alert(h, f, opportunity, price, now, io) ==
    LET entry == [key |-> _create_alert_key(opportunity),
                  pair |-> opportunity.pair,
                  entry |-> opportunity.entry,
                  direction |-> opportunity.direction,
                  current_price |-> price,
                  sent_at |-> now,
                  sent |-> TRUE]
        h2 == Append(h, entry)
    IN  [history |-> h2, file |-> _save_history(h2, f, io)]

\* a filter that also drops the row written at the cutoff
NotOldStrict(entry, now, days) == entry.sent_at > now - days

\* entry.get('sent_at', '') >= cutoff_str, in days
NotOld(entry, now, days) == entry.sent_at >= now - days

\* cleanup_old_alerts(days) on day now: the list comprehension raises on a
\* row that is no object, before self.history is assigned; the file is
\* written only when rows were removed
cleanup_old_alerts(h, f, now, days, io) ==
    IF \E k \in DOMAIN h : ~IsDict(h[k])
    THEN [history |-> h, file |-> f, raised |-> TRUE, removed |-> 0]
    ELSE LET kept == SelectSeq(h, LAMBDA entry : NotOld(entry, now, days))
             removed == Len(h) - Len(kept)
         IN  [history |-> kept,
              file |-> IF removed > 0 THEN _save_history(kept, f, io) ELSE f,
              raised |-> FALSE, removed |-> removed]

----------------------------------------------------------------------------
(* AlertManager                                                            *)

\* a send whose result is not looked at
send_alert_always(en, resp) == TRUE

\* send_alert: the Pushover exchange answers status 1, another status, or raises
send_alert(en, resp) ==
    IF ~en THEN FALSE
    ELSE IF resp = "error" THEN FALSE
    ELSE resp = "status1"

\* a send that does not look at the status of the answer
send_entry_alert_any_status(en, opportunity, price, resp) == en /\ resp # "error"

send_entry_alert(en, opportunity, price, resp) == send_alert(en, resp)

----------------------------------------------------------------------------
(* RecommendationParser                                                    *)

P(a, b) == <<a, "/", b>>

currency_pairs ==
    << P("EUR", "USD"), P("GBP", "USD"), P("USD", "JPY"), P("USD", "CHF"),
       P("AUD", "USD"), P("USD", "CAD"), P("NZD", "USD"), P("EUR", "GBP"),
       P("EUR", "JPY"), P("GBP", "JPY"), P("AUD", "JPY"), P("EUR", "AUD"),
       P("EUR", "CAD"), P("GBP", "AUD"), P("GBP", "CAD"), P("AUD", "NZD"),
       P("CAD", "CHF"), P("EUR", "CHF"), P("GBP", "CHF"), P("AUD", "CHF"),
       P("NZD", "CHF"), P("CAD", "JPY"), P("CHF", "JPY"), P("NZD", "JPY") >>

InCatalog(pair) == \E k \in DOMAIN currency_pairs : currency_pairs[k] = pair

\* the value standing for "no opportunity"
NoOpp == [pair |-> <<>>, entry |-> None, direction |-> "", recommendation |-> ""]

\* str.upper() on one symbol
Upper(sym) ==
    CASE sym = "eur" -> "EUR"
      [] sym = "usd" -> "USD"
      [] sym = "gbp" -> "GBP"
      [] sym = "jpy" -> "JPY"
      [] sym = "buy" -> "BUY"
      [] sym = "sell" -> "SELL"
      [] sym \in {"long", "Long"} -> "LONG"
      [] OTHER -> sym

\* pair.replace(' ', '').replace('_', '/').upper()
RECURSIVE Clean(_)
Clean(s) ==
    IF s = <<>> THEN <<>>
    ELSE IF Head(s) = " " THEN Clean(Tail(s))
    ELSE IF Head(s) = "_" THEN <<"/">> \o Clean(Tail(s))
    ELSE <<Upper(Head(s))>> \o Clean(Tail(s))

\* pair.replace('/', '')
RECURSIVE StripSlash(_)
StripSlash(s) ==
    IF s = <<>> THEN <<>>
    ELSE IF Head(s) = "/" THEN StripSlash(Tail(s))
    ELSE <<Head(s)>> \o StripSlash(Tail(s))

\* len(pair): a currency code is three characters, any other symbol one
RECURSIVE CharLen(_)
CharLen(s) ==
    IF s = <<>> THEN 0
    ELSE (IF Head(s) \in {"/", " ", "_"} THEN 1 ELSE 3) + CharLen(Tail(s))

\* a partial match that never finds a pair
PartialMatchNever(pair, k) == <<>>

\* the first known pair equal to pair once the slashes are removed, from k on
RECURSIVE PartialMatch(_, _)
PartialMatch(pair, k) ==
    IF k > Len(currency_pairs) THEN <<>>
    ELSE IF StripSlash(pair) = StripSlash(currency_pairs[k]) THEN currency_pairs[k]
    ELSE PartialMatch(pair, k + 1)

\* _normalize_pair: the known pair, or <<>> for None
_normalize_pair(raw) ==
    LET cleaned == Clean(raw)
        pair == IF (\A k \in DOMAIN cleaned : cleaned[k] # "/") /\ CharLen(cleaned) = 6
                   /\ Len(cleaned) = 2
                THEN <<cleaned[1], "/", cleaned[2]>>
                ELSE cleaned
    IN  IF InCatalog(pair) THEN pair ELSE PartialMatch(pair, 1)

\* an entry that is a string float() cannot read: truthy, and float(entry)
\* raises ValueError
NotFloat == [n |-> 1, d |-> 0]

\* what a call that raised leaves in place of a result
Raised == [pair |-> <<>>, entry |-> None, direction |-> "<raised>", recommendation |-> ""]

\* an element of the JSON array that is no object: data.get raises on it
NonRecord == [nondict |-> TRUE]

\* the JSON value null where a string is expected
NullWord == "<null>"

\* data.get(key) for a key that holds a number, a pair, a word: None, no
\* string and the empty string when the key is absent
GetNum(data, key) == IF key \in DOMAIN data THEN data[key] ELSE None

GetSeq(data, key) == IF key \in DOMAIN data THEN data[key] ELSE <<>>

GetWord(data, key) ==
    IF key \in DOMAIN data /\ data[key] # NullWord THEN data[key] ELSE ""

\* a or b on Optional[float]
OrNum(a, b) == IF Truthy(a) THEN a ELSE b

\* a or b on strings that are sequences of symbols, and on words
OrSeq(a, b) == IF a # <<>> THEN a ELSE b

OrWord(a, b) == IF a # "" THEN a ELSE b

\* lines 87-93: the fields of the record, each read under its synonyms;
\* raised tells that data.get('action', 'BUY').upper() is reached on null
Fields(data) ==
    [pair |-> OrSeq(GetSeq(data, "pair"),
                    OrSeq(GetSeq(data, "currency_pair"), GetSeq(data, "symbol"))),
     entry |-> OrNum(GetNum(data, "entry"),
                     OrNum(GetNum(data, "entry_price"), GetNum(data, "entryPrice"))),
     exit |-> OrNum(GetNum(data, "exit"),
                    OrNum(GetNum(data, "exit_price"),
                          OrNum(GetNum(data, "exitPrice"), GetNum(data, "target")))),
     stop_loss |-> OrNum(GetNum(data, "stop_loss"),
                         OrNum(GetNum(data, "stopLoss"), GetNum(data, "stop"))),
     direction |-> OrWord(GetWord(data, "direction"),
                          OrWord(GetWord(data, "type"),
                                 IF "action" \in DOMAIN data THEN Upper(data["action"])
                                 ELSE "BUY")),
     raised |-> /\ GetWord(data, "direction") = ""
                /\ GetWord(data, "type") = ""
                /\ "action" \in DOMAIN data
                /\ data["action"] = NullWord,
     position_size |-> OrNum(GetNum(data, "position_size"),
                             OrNum(GetNum(data, "positionSize"), GetNum(data, "size"))),
     recommendation |-> OrWord(GetWord(data, "recommendation"),
                               OrWord(GetWord(data, "reason"), GetWord(data, "analysis")))]

\* an extraction without the try: what raises inside it leaves the function
_extract_opportunity_from_dict_no_except(data) ==
    IF "nondict" \in DOMAIN data THEN Raised
    ELSE LET f == Fields(data)
             pair == _normalize_pair(f.pair)
         IN  IF f.raised THEN Raised
             ELSE IF f.pair # <<>> /\ Truthy(f.entry) /\ pair # <<>>
             THEN IF NotFloat \in {f.entry, f.exit, f.stop_loss} THEN Raised
                  ELSE [pair |-> pair,
                        entry |-> f.entry,
                        exit |-> IF Truthy(f.exit) THEN f.exit ELSE None,
                        stop_loss |-> IF Truthy(f.stop_loss) THEN f.stop_loss ELSE None,
                        direction |-> IF f.direction \in {"BUY", "LONG", "GO LONG"}
                                      THEN "BUY" ELSE "SELL",
                        position_size |-> f.position_size,
                        recommendation |-> f.recommendation,
                        source |-> "structured_data"]
             ELSE NoOpp

\* _extract_opportunity_from_dict: every exception inside the try (data.get
\* on an element that is no object, upper() on null, float() on a string that
\* is no number) is caught and None returned
_extract_opportunity_from_dict(data) ==
    IF "nondict" \in DOMAIN data THEN NoOpp
    ELSE LET f == Fields(data)
             pair == _normalize_pair(f.pair)
         IN  IF f.raised THEN NoOpp
             ELSE IF f.pair # <<>> /\ Truthy(f.entry) /\ pair # <<>>
             THEN IF NotFloat \in {f.entry, f.exit, f.stop_loss} THEN NoOpp
                  ELSE [pair |-> pair,
                        entry |-> f.entry,
                        exit |-> IF Truthy(f.exit) THEN f.exit ELSE None,
                        stop_loss |-> IF Truthy(f.stop_loss) THEN f.stop_loss ELSE None,
                        direction |-> IF f.direction \in {"BUY", "LONG", "GO LONG"}
                                      THEN "BUY" ELSE "SELL",
                        position_size |-> f.position_size,
                        recommendation |-> f.recommendation,
                        source |-> "structured_data"]
             ELSE NoOpp

\* _parse_json over a list of records
RECURSIVE _parse_json(_)
_parse_json(data) ==
    IF data = <<>> THEN <<>>
    ELSE LET opp == _extract_opportunity_from_dict(Head(data))
         IN  (IF opp # NoOpp THEN <<opp>> ELSE <<>>) \o _parse_json(Tail(data))

\* what the searches of _extract_opportunity_from_text find in a section
Found(pair, entry, exit, stop_loss, sell, position_size, body) ==
    [mention |-> pair, entry |-> entry, exit |-> exit, stop_loss |-> stop_loss,
     sell |-> sell, position_size |-> position_size, body |-> body]

\* the text of a section after its pair, as the sequence of its words and
\* numbers; whitespace and colons separate them, and a keyword of a pattern
\* is matched as a whole word
Word(w) == [w |-> w, num |-> None]

Num(r) == [w |-> "", num |-> r]

\* re.IGNORECASE on a word of a section
Lower(w) ==
    CASE w \in {"Entry", "ENTRY"} -> "entry"
      [] w \in {"Price", "PRICE"} -> "price"
      [] w \in {"Enter", "ENTER"} -> "enter"
      [] w \in {"Buy", "BUY"} -> "buy"
      [] w \in {"Sell", "SELL"} -> "sell"
      [] w \in {"Short", "SHORT"} -> "short"
      [] w \in {"Bearish", "BEARISH"} -> "bearish"
      [] w \in {"At", "AT"} -> "at"
      [] w \in {"Exit", "EXIT"} -> "exit"
      [] w \in {"Target", "TARGET"} -> "target"
      [] w \in {"Take", "TAKE"} -> "take"
      [] w \in {"Profit", "PROFIT"} -> "profit"
      [] w \in {"TP", "Tp"} -> "tp"
      [] w \in {"Stop", "STOP"} -> "stop"
      [] w \in {"Loss", "LOSS"} -> "loss"
      [] w \in {"SL", "Sl"} -> "sl"
      [] w \in {"Position", "POSITION"} -> "position"
      [] w \in {"Size", "SIZE"} -> "size"
      [] w \in {"Risk", "RISK"} -> "risk"
      [] OTHER -> w

\* ([0-9]+\.?[0-9]*) matches at words[k]: a number written without a sign
IsNumber(words, k) == k <= Len(words) /\ words[k].num # None /\ words[k].num.n >= 0

\* the keywords kw, in any letter case, then a number, from words[k] on
MatchAt(words, k, kw) ==
    /\ \A j \in 1..Len(kw) :
          k + j - 1 <= Len(words) /\ Lower(words[k + j - 1].w) = kw[j]
    /\ IsNumber(words, k + Len(kw))

\* re.search(pattern, text, re.IGNORECASE) and float(match.group(1)): the
\* number of the leftmost match of a pattern given by its spellings, None
\* when there is no match; pct: the pattern ends in %
SearchOne(words, pattern) ==
    LET ok(k, kw) == /\ MatchAt(words, k, kw)
                     /\ pattern.pct =>
                           /\ k + Len(kw) + 1 <= Len(words)
                           /\ words[k + Len(kw) + 1].w = "%"
        places == {k \in DOMAIN words : \E kw \in pattern.kws : ok(k, kw)}
    IN  IF places = {} THEN None
        ELSE LET k == CHOOSE x \in places : \A y \in places : x <= y
                 kw == CHOOSE x \in pattern.kws : ok(k, x)
             IN  words[k + Len(kw)].num

\* for pattern in patterns: ... break at the first pattern that matches
RECURSIVE Search(_, _)
Search(words, patterns) ==
    IF patterns = <<>> THEN None
    ELSE IF SearchOne(words, Head(patterns)) # None THEN SearchOne(words, Head(patterns))
    ELSE Search(words, Tail(patterns))

Pattern(kws) == [kws |-> kws, pct |-> FALSE]

\* keyword, optional "at" or "@", number
OptionalAt(kw) == Pattern({<<kw>>, <<kw, "at">>, <<kw, "@">>})

entry_patterns ==
    << Pattern({<<"entry">>}), OptionalAt("enter"), OptionalAt("buy"), OptionalAt("sell"),
       Pattern({<<"entry", "price">>}) >>

exit_patterns ==
    << Pattern({<<"exit">>}), Pattern({<<"target">>}),
       Pattern({<<"take", "profit">>, <<"take-profit">>, <<"takeprofit">>}),
       Pattern({<<"tp">>}) >>

stop_patterns ==
    << Pattern({<<"stop", "loss">>, <<"stop-loss">>, <<"stoploss">>}), Pattern({<<"sl">>}),
       Pattern({<<"stop">>}) >>

size_patterns ==
    << Pattern({<<"position", "size">>, <<"position-size">>, <<"positionsize">>}),
       Pattern({<<"size">>}), [kws |-> {<<"risk">>}, pct |-> TRUE] >>

\* a search for the direction words that looks at the letter case
sell_word_case_sensitive(words) ==
    \E k \in DOMAIN words : words[k].w \in {"sell", "short", "bearish"}

\* re.search(r'\bsell\b|\bshort\b|\bbearish\b', text, re.IGNORECASE)
sell_word(words) ==
    \E k \in DOMAIN words : Lower(words[k].w) \in {"sell", "short", "bearish"}

\* lines 117-179: the searches over the text of the section found for pair
Scan(pair, words) ==
    Found(pair, Search(words, entry_patterns), Search(words, exit_patterns),
          Search(words, stop_patterns), sell_word(words), Search(words, size_patterns),
          words)

\* _extract_opportunity_from_text on the section found for pair: entry is the
\* number the entry patterns find (None when none does), sell tells whether
\* the section holds the word sell, short or bearish
_extract_opportunity_from_text(pair, section) ==
    IF Truthy(section.entry)
    THEN [pair |-> pair,
          entry |-> section.entry,
          exit |-> IF Truthy(section.exit) THEN section.exit ELSE None,
          stop_loss |-> IF Truthy(section.stop_loss) THEN section.stop_loss ELSE None,
          direction |-> IF section.sell THEN "SELL" ELSE "BUY",
          position_size |-> section.position_size,
          recommendation |-> section.body,
          source |-> "text_parsing"]
    ELSE NoOpp

\* a search that finds the last section of the text that mentions the pair
LastSection(text, pair) ==
    IF \E k \in DOMAIN text : text[k].mention = pair
    THEN CHOOSE k \in DOMAIN text :
            text[k].mention = pair /\ \A j \in (k + 1)..Len(text) : text[j].mention # pair
    ELSE 0

\* re.search for the pair: the first section of the text that mentions it (0: none)
FirstSection(text, pair) ==
    IF \E k \in DOMAIN text : text[k].mention = pair
    THEN CHOOSE k \in DOMAIN text :
            text[k].mention = pair /\ \A j \in 1..(k - 1) : text[j].mention # pair
    ELSE 0

\* _parse_text: the loop over currency_pairs from index k on
RECURSIVE ParseTextFrom(_, _)
ParseTextFrom(text, k) ==
    IF k > Len(currency_pairs) THEN <<>>
    ELSE LET pair == currency_pairs[k]
             at == FirstSection(text, pair)
             opp == IF at = 0 THEN NoOpp
                    ELSE _extract_opportunity_from_text(pair, text[at])
         IN  (IF opp # NoOpp THEN <<opp>> ELSE <<>>) \o ParseTextFrom(text, k + 1)

_parse_text(text) == ParseTextFrom(text, 1)

\* parse_file(file_path): return self._parse_text(text), where no name text
\* is in scope: every call raises NameError, whatever the file holds
parse_file(payload) == <<Raised>>

\* parse_text(payload): structured mode for a JSON payload, else text mode
parse_text(payload) ==
    IF payload.json THEN _parse_json(payload.data) ELSE _parse_text(payload.sections)

----------------------------------------------------------------------------
(* The environment: clock readings, feed answers, synthesis texts.         *)

\* seconds between two clock readings: 0, TimeStep or 2 * TimeStep
TimeStep == 30

Deltas == {0, TimeStep, 2 * TimeStep}

EURUSD == P("EUR", "USD")
GBPJPY == P("GBP", "JPY")

\* the rates the feed may quote for EUR against a currency
FeedRates(cur) ==
    CASE cur = <<"USD">> -> {Rat(1, 1), Rat(6, 5)}
      [] cur = <<"GBP">> -> {Rat(4, 5)}
      [] cur = <<"JPY">> -> {Rat(150, 1)}
      [] OTHER -> {}

Responses(cur) ==
    {ResponseError, ResponseMissing} \cup {ResponseRate(r) : r \in FeedRates(cur)}

\* a pair that splits in two has one leg to fetch (EUR on one side) or two
IsCross(pair) ==
    /\ pair # NonString
    /\ Len(Split(pair)) = 2
    /\ Split(pair)[1] # EUR
    /\ Split(pair)[2] # EUR

\* the currency of the first and of the second leg fetched for pair
Leg1(pair) ==
    IF pair = NonString \/ Len(Split(pair)) # 2 THEN <<>>
    ELSE IF Split(pair)[1] = EUR THEN Split(pair)[2] ELSE Split(pair)[1]

Leg2(pair) == IF IsCross(pair) THEN Split(pair)[2] ELSE <<>>

Deltas2(pair) == IF IsCross(pair) THEN Deltas ELSE {0}

\* a section that holds no exit, no stop and no size
Section(pair, entry, sell, body) == Found(pair, entry, None, None, sell, None, body)

Record(pair, entry, direction, recommendation) ==
    [pair |-> pair, entry |-> entry, direction |-> direction,
     recommendation |-> recommendation]

TextPayload(sections) == [json |-> FALSE, sections |-> sections, data |-> <<>>]

JsonPayload(data) == [json |-> TRUE, sections |-> <<>>, data |-> data]

\* the synthesis texts an analysis cycle may produce
SynthesisTexts ==
    { JsonPayload(<<Record(EURUSD, Rat(11, 10), "BUY", "a")>>),
      TextPayload(<<Section(GBPJPY, Rat(375, 2), FALSE, "b"),
                    Section(EURUSD, Rat(11, 10), TRUE, "c")>>),
      TextPayload(<<Section(EURUSD, None, FALSE, "n")>>),
      JsonPayload(<<Record(EURUSD, Rat(11, 10), "BUY", "a"),
                    Record(<<"EUR", "_", "USD">>, Rat(11, 10), "LONG", "d")>>) }

AnalysisOutcomes ==
    {"disabled", "no_files", "no_download", "exception", "no_synthesis", "parsed"}

NotifierResponses == {"status1", "status0", "error"}

SaveOutcomes == {"ok", "open_fails", "dump_fails"}

\* what the history file may hold when the process starts
InitialFiles ==
    { FileMissing, FileCorrupt, FileOf(<<>>), FileOf(<<BadRow>>),
      FileOf(record_alert(<<>>, FileMissing,
                          [pair |-> EURUSD, entry |-> Rat(11, 10), direction |-> "BUY",
                           recommendation |-> "a"],
                          Rat(1, 1), 0, "ok").history) }

----------------------------------------------------------------------------
(* TradeAlertSystem                                                        *)

\* CHECK_INTERVAL, seconds slept between two passes
check_interval == 60

\* op: the step; outcome: how it ended; opp: the opportunity it was about;
\* eval: the price the step's own lookup returned; sent: the price handed to
\* self.last_analysis_time = None
NoTime == 0 - 1

\* default_times = "07:00,09:00,12:00,16:00", the first of them, in minutes
\* of the day
first_scheduled_minute == 420

\* the clock reading of the first iteration of the loop, 06:50:00
StartOfWatch == first_scheduled_minute * 60 - 600

\* the notifier; resp: the answer of the Pushover exchange
Obs(op, outcome, opp, eval, sent, resp) ==
    [op |-> op, outcome |-> outcome, opp |-> opp, eval |-> eval, sent |-> sent,
     resp |-> resp]

NoCall == [op |-> "none"]

Init ==
    /\ opportunities = <<>>
    /\ history_file \in InitialFiles
    /\ history = _load_history(history_file)
    /\ cache = EmptyCache
    /\ cache_age = cache_ttl
    /\ enabled \in BOOLEAN
    /\ today = 0
    /\ pc = "top"
    /\ i = 0
    /\ current_price = None
    /\ last = Obs("init", "", NoOpp, None, None, "")
    /\ delivered = {}
    /\ call = NoCall
    /\ current_time = StartOfWatch
    /\ last_analysis_time = NoTime

\* an analysis that adds what it parsed to what was tracked
merge_opportunities(old, new_opportunities) ==
    IF new_opportunities # <<>> THEN old \o new_opportunities ELSE old

\* if new_opportunities: self.opportunities = new_opportunities; otherwise
\* a warning is logged and self.opportunities stays
replace_opportunities(old, new_opportunities) ==
    IF new_opportunities # <<>> THEN new_opportunities ELSE old

\* what an analysis that reached the parser leaves to observe: the list the
\* parser returned and the list tracked before
Parsed(new_opportunities, previous) ==
    [op |-> "analysis", outcome |-> "parsed", opp |-> NoOpp, eval |-> None,
     sent |-> None, resp |-> "", parsed |-> new_opportunities, previous |-> previous]

\* a cycle whose exception is not caught at the end of _run_full_analysis
_run_full_analysis_no_except(old, outcome, gemini_final) ==
    IF outcome = "parsed"
    THEN LET new_opportunities == parse_text(gemini_final)
         IN  [opportunities |-> replace_opportunities(old, new_opportunities),
              parsed |-> new_opportunities, propagated |-> FALSE]
    ELSE [opportunities |-> old, parsed |-> <<>>,
          propagated |-> (outcome = "exception")]

\* _run_full_analysis(): the early returns (reader disabled, no files, no
\* download), the branch without synthesis text and the except clause end
\* the cycle with self.opportunities as it was; only a cycle that reaches
\* the parser assigns it
_run_full_analysis(old, outcome, gemini_final) ==
    IF outcome = "parsed"
    THEN LET new_opportunities == parse_text(gemini_final)
         IN  [opportunities |-> replace_opportunities(old, new_opportunities),
              parsed |-> new_opportunities, propagated |-> FALSE]
    ELSE [opportunities |-> old, parsed |-> <<>>, propagated |-> FALSE]

\* the synthesis text of a cycle with the given outcome
TextsOf(outcome) ==
    IF outcome = "parsed" THEN SynthesisTexts ELSE {TextPayload(<<>>)}

\* _run_full_analysis, when the scheduler starts it (main.py:103-119)
RunFullAnalysis ==
    /\ pc = "top"
    /\ \E outcome \in AnalysisOutcomes :
          \E gemini_final \in TextsOf(outcome) :
             \E r \in {_run_full_analysis(opportunities, outcome, gemini_final)} :
                 /\ opportunities' = r.opportunities
                 /\ last' = IF outcome = "parsed"
                            THEN Parsed(r.parsed, opportunities)
                            ELSE Obs("analysis", outcome, NoOpp, None, None, "")
                 /\ pc' = IF r.propagated THEN "crashed" ELSE "check"
    /\ UNCHANGED <<history, history_file, cache, cache_age, enabled, today, i,
                   current_price, delivered, call>>
    /\ UNCHANGED <<current_time, last_analysis_time>>

\* the end of one iteration of the for loop: the next opportunity, or the
\* return and time.sleep(check_interval)
EndIteration(age) ==
    /\ current_price' = None
    /\ IF i < Len(opportunities)
       THEN pc' = "lookup" /\ i' = i + 1 /\ cache_age' = age
       ELSE pc' = "top" /\ i' = 0 /\ cache_age' = Min(age + check_interval, cache_ttl)

\* an exception that leaves the for loop and, through run(), the process
AbortPass(age) ==
    /\ current_price' = None
    /\ pc' = "crashed"
    /\ i' = 0
    /\ cache_age' = age

\* except Exception as e: logger.error(...), inside the for loop
AfterException(age) == EndIteration(age)

\* a pass that goes on without a price
price_unavailable_never(price) == FALSE

\* if not current_price: continue
price_unavailable(price) == ~Truthy(price)

\* _check_entry_points up to the for loop (main.py:201-208)
CheckEntryPoints ==
    /\ pc \in {"top", "check"}
    /\ IF opportunities = <<>>
       THEN /\ pc' = "top"
            /\ i' = 0
            /\ cache_age' = Min(cache_age + check_interval, cache_ttl)
            /\ last' = Obs("pass", "empty", NoOpp, None, None, "")
       ELSE /\ pc' = "lookup"
            /\ i' = 1
            /\ cache_age' = cache_age
            /\ last' = Obs("pass", "start", NoOpp, None, None, "")
    /\ UNCHANGED <<opportunities, history, history_file, cache, enabled, today,
                   current_price, delivered, call>>
    /\ UNCHANGED <<current_time, last_analysis_time>>

\* one iteration up to the price lookup (main.py:209-221)
Lookup ==
    /\ pc = "lookup"
    /\ LET opp == opportunities[i]
           alerted == has_alerted(history, opp)
       IN  IF alerted = "raise"
           THEN /\ last' = Obs("lookup", "raised", opp, None, None, "")
                /\ cache' = cache
                /\ AfterException(cache_age)
           ELSE IF alerted = "True"
           THEN /\ last' = Obs("lookup", "skipped", opp, None, None, "")
                /\ cache' = cache
                /\ EndIteration(cache_age)
           ELSE \E d1 \in Deltas, resp1 \in Responses(Leg1(opp.pair)),
                   d2 \in Deltas2(opp.pair),
                   resp2 \in Responses(Leg2(opp.pair)) :
                   \E g \in {get_rate(cache, cache_age, opp.pair, d1, resp1, d2, resp2)} :
                       /\ cache' = g.cache
                       /\ IF g.propagated
                          THEN /\ last' = Obs("lookup", "raised", opp, None, None, "")
                               /\ AfterException(g.age)
                          ELSE IF price_unavailable(g.rate)
                          THEN /\ last' = Obs("lookup", "no_price", opp, g.rate, None, "")
                               /\ EndIteration(g.age)
                          ELSE /\ last' = Obs("lookup", "priced", opp, g.rate, None, "")
                               /\ current_price' = g.rate
                               /\ cache_age' = g.age
                               /\ pc' = "evaluate"
                               /\ i' = i
    /\ UNCHANGED <<opportunities, history, history_file, enabled, today, delivered, call>>
    /\ UNCHANGED <<current_time, last_analysis_time>>

\* the rest of the iteration: evaluation, notification, ledger write
\* (main.py:223-234)
Evaluate ==
    /\ pc = "evaluate"
    /\ LET opp == opportunities[i]
       IN  \E d1 \in Deltas, resp1 \in Responses(Leg1(opp.pair)),
              d2 \in Deltas2(opp.pair),
              resp2 \in Responses(Leg2(opp.pair)) :
              \E e \in {check_entry_point(cache, cache_age, opp.pair, opp.entry,
                                          opp.direction, d1, resp1, d2, resp2)} :
                  /\ cache' = e.cache
                  /\ IF e.propagated
                     THEN /\ last' = Obs("evaluate", "raised", opp, None, None, "")
                          /\ AfterException(e.age)
                          /\ UNCHANGED <<history, history_file, delivered>>
                     ELSE IF ~e.hit
                     THEN /\ last' = Obs("evaluate", "no_hit", opp, e.price, None, "")
                          /\ EndIteration(e.age)
                          /\ UNCHANGED <<history, history_file, delivered>>
                     ELSE \E resp \in NotifierResponses :
                             /\ EndIteration(e.age)
                             /\ IF send_entry_alert(enabled, opp, current_price, resp)
                                THEN \E io \in SaveOutcomes :
                                        LET r == record_alert(history, history_file, opp,
                                                              current_price, today, io)
                                        IN  /\ history' = r.history
                                            /\ history_file' = r.file
                                            /\ delivered' = delivered \cup {opp}
                                            /\ last' = Obs("evaluate", "alerted", opp,
                                                           e.price, current_price, resp)
                                ELSE /\ last' = Obs("evaluate", "send_failed", opp,
                                                    e.price, current_price, resp)
                                     /\ UNCHANGED <<history, history_file, delivered>>
    /\ UNCHANGED <<opportunities, enabled, today, call>>
    /\ UNCHANGED <<current_time, last_analysis_time>>

Next == RunFullAnalysis \/ CheckEntryPoints \/ Lookup \/ Evaluate

Spec == Init /\ [][Next]_vars

\* The main loop never stops (while True): it starts the pass over the
\* tracked set again and again, and every pass comes to its end.
MaxOpps == 2

\* The feed keeps answering: when the pass is again and again at place k of
\* the set with an opportunity it has to look up, then again and again the
\* lookup returns a price.
FeedAnswers(k) ==
    \/ <>[] ~(pc = "lookup" /\ i = k
              /\ has_alerted(history, opportunities[i]) = "False")
    \/ []<> <<pc = "lookup" /\ i = k /\ pc' = "evaluate">>_vars

\* The notifier keeps answering: when it is configured and the pass is again
\* and again about to evaluate the opportunity at place k, then again and
\* again the evaluation hits and the notification succeeds.
NotifierAnswers(k) ==
    \/ <>[] ~(pc = "evaluate" /\ i = k /\ enabled)
    \/ []<> <<pc = "evaluate" /\ i = k /\ last'.outcome = "alerted">>_vars

FairSpec ==
    /\ Spec
    /\ WF_vars(CheckEntryPoints)
    /\ []<>(pc = "top")
    /\ \A k \in 1..MaxOpps : FeedAnswers(k) /\ NotifierAnswers(k)

----------------------------------------------------------------------------
(* PriceMonitor called directly: any pair value, any order of calls.       *)

OraclePairs ==
    { EURUSD, GBPJPY, P("USD", "EUR"), <<"EUR", "USD">>,
      <<"EUR", "/", "USD", "/", "JPY">>, NonString }

OracleRates(cur) ==
    CASE cur = <<"USD">> -> {Rat(22021, 20000), Rat(551, 500)}
      [] cur = <<"GBP">> -> {Rat(4, 5)}
      [] cur = <<"JPY">> -> {Rat(150, 1), Rat(7509, 125)}
      [] OTHER -> {}

OracleResponses(cur) ==
    {ResponseError, ResponseMissing} \cup {ResponseRate(r) : r \in OracleRates(cur)}

\* the (pair, entry_price) a direct check_entry_point call is given
OracleEntries ==
    { <<EURUSD, Rat(11, 10)>>, <<GBPJPY, Rat(375, 2)>>, <<GBPJPY, Rat(75, 1)>> }

\* seconds since each cached leg was itself fetched, up to cache_ttl, as left
\* by the calls made so far
PrevAges == IF call.op = "none" THEN EmptyCache ELSE call.ages

\* the same, d seconds later
AgedBy(d) == [k \in DOMAIN PrevAges |-> Min(PrevAges[k] + d, cache_ttl)]

\* r: what the get_rate call (made directly, or by check_entry_point) returned,
\* d seconds after the previous call; ages: seconds since each cached leg
\* was itself fetched; stale: the legs answered from the cache cache_ttl
\* seconds or more after their own fetch
CallRecord(op, pair, entry, direction, r, hit, d) ==
    [op |-> op, pair |-> pair, entry |-> entry, direction |-> direction,
     rate |-> r.rate, hit |-> hit, propagated |-> r.propagated, raised |-> r.raised,
     cross |-> r.cross, rate_base |-> r.rate_base, rate_quote |-> r.rate_quote,
     fetched |-> r.fetched, feed_failed |-> r.feed_failed,
     served |-> r.served,
     ages |-> [k \in DOMAIN r.cache |-> IF k \in r.written THEN 0 ELSE AgedBy(d)[k]],
     stale |-> {k \in r.served : AgedBy(d)[k] >= cache_ttl}]

OracleInit == Init /\ history_file = FileMissing /\ enabled

CallGetRate ==
    /\ \E pair \in OraclePairs :
          \E d1 \in Deltas, resp1 \in OracleResponses(Leg1(pair)),
             d2 \in {0}, resp2 \in OracleResponses(Leg2(pair)) :
             \E g \in {get_rate(cache, cache_age, pair, d1, resp1, d2, resp2)} :
                 /\ cache' = g.cache
                 /\ cache_age' = g.age
                 /\ call' = CallRecord("get_rate", pair, None, "", g, FALSE, d1 + d2)
    /\ UNCHANGED <<opportunities, history, history_file, enabled, today, pc, i,
                   current_price, last, delivered>>
    /\ UNCHANGED <<current_time, last_analysis_time>>

CallCheckEntryPoint ==
    /\ \E pe \in OracleEntries, direction \in {"BUY", "SELL"} :
          \E d1 \in Deltas, resp1 \in OracleResponses(Leg1(pe[1])),
             d2 \in {0}, resp2 \in OracleResponses(Leg2(pe[1])) :
             \E e \in {check_entry_point(cache, cache_age, pe[1], pe[2], direction,
                                         d1, resp1, d2, resp2)} :
                 /\ cache' = e.cache
                 /\ cache_age' = e.age
                 /\ call' = CallRecord("check_entry_point", pe[1], pe[2], direction,
                                       e.lookup, e.hit, d1 + d2)
    /\ UNCHANGED <<opportunities, history, history_file, enabled, today, pc, i,
                   current_price, last, delivered>>
    /\ UNCHANGED <<current_time, last_analysis_time>>

\* the currencies a leg is looked up for
OracleLegs == { <<"USD">>, <<"GBP">>, <<"JPY">> }

\* what a direct _get_frankfurter_rate('EUR', quote) call returned, d
\* seconds after the previous call; elapsed: current_time - cache_time at
\* the call, saturated at cache_ttl; feed_failed: a request was made and
\* raised or answered without the rate
LegRecord(quote, r, resp, d, elapsed) ==
    [op |-> "_get_frankfurter_rate", pair |-> EUR \o SLASH \o quote, rate |-> r.rate,
     fetched |-> r.fetched, feed_failed |-> r.fetched /\ resp.kind # "rates",
     elapsed |-> elapsed,
     served |-> Served(r, EUR, quote),
     ages |-> [k \in DOMAIN r.cache |->
                  IF k \in Written(r, EUR, quote, resp) THEN 0 ELSE AgedBy(d)[k]],
     stale |-> {k \in Served(r, EUR, quote) : AgedBy(d)[k] >= cache_ttl}]

CallLeg ==
    /\ \E quote \in OracleLegs, d \in Deltas :
          \E resp \in OracleResponses(quote) :
             \E r \in {_get_frankfurter_rate(cache, cache_age, EUR, quote, d, resp)} :
                 /\ cache' = r.cache
                 /\ cache_age' = r.age
                 /\ call' = LegRecord(quote, r, resp, d, Min(cache_age + d, cache_ttl))
    /\ UNCHANGED <<opportunities, history, history_file, enabled, today, pc, i,
                   current_price, last, delivered>>
    /\ UNCHANGED <<current_time, last_analysis_time>>

OracleNext == CallGetRate \/ CallCheckEntryPoint \/ CallLeg

OracleSpec == OracleInit /\ [][OracleNext]_vars

----------------------------------------------------------------------------
(* AlertHistory called directly: any order of calls, restarts, passing     *)
(* days.                                                                   *)

\* rows the history may hold before record_alert is no longer called
MaxRows == 2

\* days the clock may advance
MaxDay == 2

\* the days argument of cleanup_old_alerts: one day, and the default
RetentionDays == {1, 7}

FullOpp(pair, entry, direction, recommendation, position_size, exit, stop_loss, source) ==
    [pair |-> pair, entry |-> entry, direction |-> direction,
     recommendation |-> recommendation, position_size |-> position_size,
     exit |-> exit, stop_loss |-> stop_loss, source |-> source]

\* the opportunity of the text, and the same found again as structured data
\* with another rationale, size, exit and stop
OppA == FullOpp(EURUSD, Rat(11, 10), "BUY", "a", "1", Rat(111, 100), Rat(109, 100),
                "text_parsing")
OppA2 == FullOpp(EURUSD, Rat(11, 10), "BUY", "d", "2", None, None, "structured_data")

OppSell ==
    FullOpp(EURUSD, Rat(11, 10), "SELL", "a", "1", Rat(111, 100), Rat(109, 100), "text_parsing")

\* the opportunities has_alerted is asked about
LedgerOpps ==
    { OppA, OppA2, OppSell,
      FullOpp(EURUSD, Rat(1100001, 1000000), "BUY", "a", "1", Rat(111, 100), Rat(109, 100),
              "text_parsing"),
      FullOpp(EURUSD, Rat(110001, 100000), "BUY", "a", "1", Rat(111, 100), Rat(109, 100),
              "text_parsing"),
      FullOpp(P("GBP", "USD"), Rat(11, 10), "BUY", "a", "1", Rat(111, 100), Rat(109, 100),
              "text_parsing") }

\* the opportunities record_alert is given
RecordOpps == {OppA, OppSell}

\* what a call returned: result is the value of has_alerted, or the number
\* of rows cleanup_old_alerts removed; raised tells that the call raised
LedgerCall(op, opportunity, result, io, raised, days) ==
    [op |-> op, opp |-> opportunity, result |-> result, io |-> io, raised |-> raised,
     days |-> days]

LedgerInit == Init /\ enabled

CallHasAlerted ==
    /\ \E o \in LedgerOpps :
          call' = LedgerCall("has_alerted", o, has_alerted(history, o), "",
                             has_alerted(history, o) = "raise", 0)
    /\ UNCHANGED <<opportunities, history, history_file, cache, cache_age, enabled,
                   today, pc, i, current_price, last, delivered>>
    /\ UNCHANGED <<current_time, last_analysis_time>>

CallRecordAlert ==
    /\ Len(history) < MaxRows
    /\ \E o \in RecordOpps, io \in SaveOutcomes :
          \E r \in {record_alert(history, history_file, o, Rat(1, 1), today, io)} :
              /\ history' = r.history
              /\ history_file' = r.file
              /\ call' = LedgerCall("record_alert", o, "", io, FALSE, 0)
    /\ UNCHANGED <<opportunities, cache, cache_age, enabled, today, pc, i,
                   current_price, last, delivered>>
    /\ UNCHANGED <<current_time, last_analysis_time>>

CallCleanup ==
    /\ \E days \in RetentionDays, io \in SaveOutcomes :
          \E r \in {cleanup_old_alerts(history, history_file, today, days, io)} :
              /\ history' = r.history
              /\ history_file' = r.file
              /\ call' = LedgerCall("cleanup_old_alerts", NoOpp, r.removed, io, r.raised, days)
    /\ UNCHANGED <<opportunities, cache, cache_age, enabled, today, pc, i,
                   current_price, last, delivered>>
    /\ UNCHANGED <<current_time, last_analysis_time>>

\* the process starts again: AlertHistory() over the file as it is
Restart ==
    /\ history' = _load_history(history_file)
    /\ call' = LedgerCall("restart", NoOpp, "", "", FALSE, 0)
    /\ UNCHANGED <<opportunities, history_file, cache, cache_age, enabled, today,
                   pc, i, current_price, last, delivered>>
    /\ UNCHANGED <<current_time, last_analysis_time>>

DayPasses ==
    /\ today < MaxDay
    /\ today' = today + 1
    /\ UNCHANGED <<opportunities, history, history_file, cache, cache_age, enabled,
                   pc, i, current_price, last, delivered, call>>
    /\ UNCHANGED <<current_time, last_analysis_time>>

LedgerNext == CallHasAlerted \/ CallRecordAlert \/ CallCleanup \/ Restart \/ DayPasses

LedgerSpec == LedgerInit /\ [][LedgerNext]_vars

----------------------------------------------------------------------------
(* RecommendationParser called directly on synthesis texts and on          *)
(* structured records.                                                     *)

\* sections a text may hold, records a structured payload may hold
MaxSections == 2

\* a pair written as the models write it: as in the catalog, in lower case
\* without the slash; a symbol that is no known pair; no pair at all
RecordPairs == { EURUSD, <<"eur", "usd">>, <<"XAU", "/", "USD">>, <<>> }

\* the entry of a record: a price, a negative number, zero, null, and a
\* string that is no number
RecordEntries == { Rat(11, 10), Rat(-11, 10), Rat(0, 1), None, NotFloat }

\* a record under the other names of its fields, with a target and a stop
SynonymRecord ==
    [symbol |-> <<"eur", "usd">>, entry_price |-> Rat(11, 10), target |-> Rat(111, 100),
     stop |-> Rat(109, 100), type |-> "SELL", size |-> Rat(2, 1), reason |-> "d"]

\* records whose exit or stop is a string that is no number
BadExitRecord ==
    [pair |-> EURUSD, entry |-> Rat(11, 10), exit |-> NotFloat, direction |-> "BUY"]

BadStopRecord ==
    [pair |-> EURUSD, entry |-> Rat(11, 10), stop_loss |-> NotFloat, direction |-> "BUY"]

ParserRecords ==
    { Record(pair, entry, direction, "a") :
        pair \in RecordPairs, entry \in RecordEntries, direction \in {"LONG", "SELL"} }
    \cup {NonRecord, SynonymRecord, BadExitRecord, BadStopRecord}

\* the number the entry patterns find in a section: a price, another
\* price, 0, or nothing
SectionEntries == { Rat(11, 10), Rat(6, 5), Rat(0, 1), None }

ParserSections ==
    { Section(pair, entry, sell, "a") :
        pair \in {EURUSD, GBPJPY, P("GBP", "USD")}, entry \in SectionEntries,
        sell \in BOOLEAN }

\* the sequences over S of length 0..n
RECURSIVE SeqsUpTo(_, _)
SeqsUpTo(S, n) ==
    IF n = 0 THEN {<<>>}
    ELSE LET shorter == SeqsUpTo(S, n - 1)
         IN  shorter \cup {Append(q, x) : q \in shorter, x \in S}

ParserCall(op, input, result) == [op |-> op, input |-> input, result |-> result]

ParserInit == Init /\ enabled /\ history_file = FileMissing

\* the parser keeps nothing between calls: one call on a new parser
CallParseJson ==
    /\ call = NoCall
    /\ \E data \in SeqsUpTo(ParserRecords, MaxSections) :
          call' = ParserCall("_parse_json", data, parse_text(JsonPayload(data)))
    /\ UNCHANGED <<opportunities, history, history_file, cache, cache_age, enabled,
                   today, pc, i, current_price, last, delivered>>
    /\ UNCHANGED <<current_time, last_analysis_time>>

CallParseText ==
    /\ call = NoCall
    /\ \E text \in SeqsUpTo(ParserSections, MaxSections) :
          call' = ParserCall("_parse_text", text, parse_text(TextPayload(text)))
    /\ UNCHANGED <<opportunities, history, history_file, cache, cache_age, enabled,
                   today, pc, i, current_price, last, delivered>>
    /\ UNCHANGED <<current_time, last_analysis_time>>

\* the section of the end-to-end scenario: Entry: 1.1000 Target: 1.1100
\* Stop Loss: 1.0950
Scenario ==
    << Word("Entry"), Num(Rat(11, 10)), Word("Target"), Num(Rat(111, 100)),
       Word("Stop"), Word("Loss"), Num(Rat(219, 200)) >>

\* other sections: Buy at 1.1; SELL: 1.1 SL: 1.2; Entry Price: 1.1 TP: 1.2;
\* one without any price
BaseSections ==
    { Scenario,
      << Word("Buy"), Word("at"), Num(Rat(11, 10)) >>,
      << Word("SELL"), Num(Rat(11, 10)), Word("SL"), Num(Rat(6, 5)) >>,
      << Word("Entry"), Word("Price"), Num(Rat(11, 10)), Word("TP"), Num(Rat(6, 5)) >>,
      << Word("outlook") >> }

\* the words a section may hold besides: the direction words in some letter
\* cases, and words that only contain one
ExtraWords == {"sell", "SELL", "Short", "bearish", "BEARISH", "seller", "shorter", "outlook"}

\* words with the word w put in after its first p words
Insert(words, p, w) == SubSeq(words, 1, p) \o <<Word(w)>> \o SubSeq(words, p + 1, Len(words))

SectionTexts ==
    BaseSections
    \cup UNION { {Insert(b, p, w) : p \in 0..Len(b), w \in ExtraWords} : b \in BaseSections }

\* a text that is one section of EUR/USD
CallExtractFromText ==
    /\ call = NoCall
    /\ \E words \in SectionTexts :
          call' = ParserCall("_extract_opportunity_from_text", words,
                             parse_text(TextPayload(<<Scan(EURUSD, words)>>)))
    /\ UNCHANGED <<opportunities, history, history_file, cache, cache_age, enabled,
                   today, pc, i, current_price, last, delivered>>
    /\ UNCHANGED <<current_time, last_analysis_time>>

\* currency codes as a raw pair may spell them, XYZ and ABC being no
\* currencies of the catalog
CodeSpellings == {"EUR", "eur", "USD", "usd", "GBP", "gbp", "JPY", "jpy", "XYZ", "ABC"}

\* what a raw pair may hold between its two codes
Separators == { <<"/">>, <<"_">>, <<" ">>, <<>>, <<" ", "/", " ">>, <<"_", "_">> }

RawPairs == { <<a>> \o sep \o <<b>> : a \in CodeSpellings, b \in CodeSpellings, sep \in Separators }

CallNormalizePair ==
    /\ call = NoCall
    /\ \E raw \in RawPairs :
          call' = ParserCall("_normalize_pair", raw, _normalize_pair(raw))
    /\ UNCHANGED <<opportunities, history, history_file, cache, cache_age, enabled,
                   today, pc, i, current_price, last, delivered>>
    /\ UNCHANGED <<current_time, last_analysis_time>>

CallParseFile ==
    /\ call = NoCall
    /\ \E payload \in SynthesisTexts :
          call' = ParserCall("parse_file", payload, parse_file(payload))
    /\ UNCHANGED <<opportunities, history, history_file, cache, cache_age, enabled,
                   today, pc, i, current_price, last, delivered>>
    /\ UNCHANGED <<current_time, last_analysis_time>>

\* the three keys a record may carry its direction under, and "none" for a
\* record that has none of them
DirectionKeys == {"direction", "type", "action"}

DirectionValues == {"BUY", "SELL", "LONG", "buy", "sell", "Long"}

\* {"pair": ..., "entry": ..., key: value}
DirectionRecord(pair, key, value) ==
    IF key = "none" THEN [pair |-> pair, entry |-> Rat(11, 10)]
    ELSE [k \in {"pair", "entry", key} |->
             IF k = "pair" THEN pair
             ELSE IF k = "entry" THEN Rat(11, 10) ELSE value]

\* the same direction value handed over under each of the keys in turn:
\* result[key] is what the record with that key is parsed into
CallExtractFromDict ==
    /\ call = NoCall
    /\ \E pair \in {EURUSD, GBPJPY}, value \in DirectionValues :
          call' = ParserCall("_extract_opportunity_from_dict", value,
                             [key \in DirectionKeys \cup {"none"} |->
                                 parse_text(JsonPayload(
                                     <<DirectionRecord(pair, key, value)>>))])
    /\ UNCHANGED <<opportunities, history, history_file, cache, cache_age, enabled,
                   today, pc, i, current_price, last, delivered>>
    /\ UNCHANGED <<current_time, last_analysis_time>>

ParserNext ==
    \/ CallParseJson
    \/ CallParseText
    \/ CallExtractFromText
    \/ CallNormalizePair
    \/ CallParseFile
    \/ CallExtractFromDict

ParserSpec == ParserInit /\ [][ParserNext]_vars

----------------------------------------------------------------------------
(* The scheduled check of the main loop (main.py:80-125) against the wall  *)
(* clock, around the first scheduled time of the day.                      *)

\* AnalysisScheduler.scheduled_times, as minutes of the day
scheduled_times == {first_scheduled_minute}

\* tolerance_minutes=5
tolerance_minutes == 5

\* _times_match(time1, time2, tolerance_minutes), on hour * 60 + minute
_times_match(minutes1, minutes2) ==
    LET diff == IF minutes1 >= minutes2 THEN minutes1 - minutes2
                ELSE minutes2 - minutes1
    IN  diff <= tolerance_minutes

\* time1.hour * 60 + time1.minute of a clock reading in seconds of the day
MinuteOfDay(t) == (t \div 60) % 1440

\* should_run_analysis(current_time)
should_run_analysis(t) ==
    \E scheduled_time \in scheduled_times :
        _times_match(MinuteOfDay(t), scheduled_time)

\* (current_time - self.last_analysis_time).total_seconds() > 300
rerun_guard == 300

\* the two conditions under which run() starts _run_full_analysis
analysis_due(t, previous) ==
    /\ should_run_analysis(t)
    /\ (previous = NoTime \/ t - previous > rerun_guard)

\* minutes of wall clock the loop is followed for
WatchMinutes == 20

EndOfWatch == StartOfWatch + WatchMinutes * 60

\* seconds one iteration takes besides the sleep: the analysis, the price
\* lookups, the notifications
BodyTimes == {0, TimeStep, 4 * check_interval}

\* while True: current_time = datetime.now(pytz.UTC); the scheduled check
\* and, when it is due, the analysis (main.py:80-119)
ScheduledCheck ==
    /\ pc = "top"
    /\ pc' = "check"
    /\ IF analysis_due(current_time, last_analysis_time)
       THEN /\ last_analysis_time' = current_time
            /\ last' = Obs("scheduler", "started", NoOpp, None, None, "")
       ELSE /\ last_analysis_time' = last_analysis_time
            /\ last' = Obs("scheduler", "idle", NoOpp, None, None, "")
    /\ UNCHANGED <<opportunities, history, history_file, cache, cache_age, enabled,
                   today, i, current_price, delivered, call, current_time>>

\* the rest of the iteration and time.sleep(self.check_interval)
\* (main.py:121-125)
SleepUntilNextCheck ==
    /\ pc = "check"
    /\ pc' = "top"
    /\ \E body \in BodyTimes :
          /\ current_time + body + check_interval <= EndOfWatch
          /\ current_time' = current_time + body + check_interval
    /\ UNCHANGED <<opportunities, history, history_file, cache, cache_age, enabled,
                   today, i, current_price, last, delivered, call,
                   last_analysis_time>>

SchedulerInit == Init /\ enabled /\ history_file = FileMissing

SchedulerNext == ScheduledCheck \/ SleepUntilNextCheck

SchedulerSpec == SchedulerInit /\ [][SchedulerNext]_vars

----------------------------------------------------------------------------
(* The claims.                                                             *)

\* the ledger key of the specification: pair, direction, entry to 5 decimals
SameKey(a, b) ==
    /\ a.pair = b.pair
    /\ a.direction = b.direction
    /\ Round5(a.entry) = Round5(b.entry)

\* the step observed by o called the notifier
NotifierInvoked(o) == o.op = "evaluate" /\ o.outcome \in {"alerted", "send_failed"}

\* C1: once the notifier has returned success for an opportunity and the
\* ledger has recorded it, no later step of the run invokes the notifier for
\* an opportunity with the same key (pair, direction, entry to 5 decimals).
C1_OneShot ==
    [][ (pc = "evaluate" /\ NotifierInvoked(last'))
          => \A o \in delivered : ~SameKey(o, last'.opp) ]_vars

\* an opportunity other than the delivered one, with the same key, was
\* skipped by the ledger lookup
C1_Witness ==
    /\ last.op = "lookup"
    /\ last.outcome = "skipped"
    /\ last.opp \notin delivered
    /\ \E o \in delivered : SameKey(o, last.opp)

Rows(h) == {k \in DOMAIN h : IsDict(h[k])}

\* C2: the ledger, in memory and as stored, never holds two entries with the
\* same key, and holds exactly one entry for each opportunity notified with
\* success.
C2_OneEntryPerKey ==
    /\ \A a, b \in Rows(history) : a # b => ~SameKey(history[a], history[b])
    /\ \A a, b \in Rows(history_file.rows) :
          a # b => ~SameKey(history_file.rows[a], history_file.rows[b])
    /\ \A o \in delivered :
          Cardinality({k \in Rows(history) : SameKey(history[k], o)}) = 1

\* two entries in the ledger, and an opportunity just skipped because its key
\* is one of them
C2_Witness ==
    /\ Len(history) >= 2
    /\ last.outcome = "skipped"
    /\ \E k \in Rows(history) : SameKey(history[k], last.opp)

\* C3: the ledger, in memory or as stored, changes only in a step in which
\* the Pushover exchange of an enabled notifier answered status 1, and then
\* by one appended entry for that opportunity; a step in which the notifier
\* returns anything else leaves both unchanged.
C3_LedgerOnlyOnSuccess ==
    [][ (history' # history \/ history_file' # history_file)
          => /\ pc = "evaluate"
             /\ last'.outcome = "alerted"
             /\ enabled
             /\ last'.resp = "status1"
             /\ Len(history') = Len(history) + 1
             /\ SubSeq(history', 1, Len(history)) = history
             /\ SameKey(history'[Len(history')], opportunities[i]) ]_vars

\* the notifier was called for a hit and failed, with the ledger empty
C3_Witness ==
    /\ last.outcome = "send_failed"
    /\ enabled
    /\ last.resp \in {"status0", "error"}
    /\ history = <<>>
    /\ history_file.rows = <<>>

\* C5: a step of the pass in which the evaluation of an opportunity raises
\* goes on to the next opportunity of the set, or ends the pass when it was
\* the last one; the pass never raises.
C5_PassSurvivesException ==
    [][ (pc \in {"lookup", "evaluate"} /\ last'.outcome = "raised")
          => IF i < Len(opportunities)
             THEN pc' = "lookup" /\ i' = i + 1
             ELSE pc' = "top" /\ i' = 0 ]_vars

\* the first opportunity of a pass raised and the pass is at the second
C5_Witness ==
    /\ last.outcome = "raised"
    /\ pc = "lookup"
    /\ i = 2
    /\ Len(opportunities) = 2

\* C6: a step in which get_rate returns no price for the opportunity does not
\* go on to the evaluation and the notifier, and leaves the ledger and the
\* tracked set as they were.
C6_NoPriceSkips ==
    [][ (pc = "lookup" /\ last'.outcome \notin {"raised", "skipped"}
         /\ last'.eval = None)
          => /\ pc' # "evaluate"
             /\ pc' \in {"lookup", "top"}
             /\ UNCHANGED <<opportunities, history, history_file, delivered>> ]_vars

\* no price for the first of two opportunities: the pass is at the second,
\* the first still tracked
C6_Witness ==
    /\ last.op = "lookup"
    /\ last.outcome = "no_price"
    /\ pc = "lookup"
    /\ i = 2
    /\ opportunities[1] = last.opp

\* the opportunities an analysis cycle may extract
RECURSIVE Range(_)
Range(q) == IF q = <<>> THEN {} ELSE {Head(q)} \cup Range(Tail(q))

OppUniverse == UNION {Range(parse_text(t)) : t \in SynthesisTexts}

\* the notifier was called in the step observed by o and did not succeed
NotifierFailed(o) == NotifierInvoked(o) /\ ~(enabled /\ o.resp = "status1")

HasRow(h, o) == \E k \in Rows(h) : SameKey(h[k], o)

Tracked(o) == \E k \in DOMAIN opportunities : opportunities[k] = o

\* C4: a failed notification leaves no entry for the key in the ledger; an
\* opportunity whose key has no entry is looked up again at its turn; when
\* the evaluation has a price on which the entry condition holds the
\* notifier is invoked; and if prices keep arriving and the notifier keeps
\* answering, a failed notification is followed by an entry for the key in
\* the ledger, unless the opportunity is no longer tracked.
C4_AtLeastOnce ==
    /\ [](NotifierFailed(last) => ~HasRow(history, last.opp))
    /\ [][ (pc = "lookup" /\ ~HasRow(history, opportunities[i])
            /\ Rows(history) = DOMAIN history)
             => last'.outcome \in {"no_price", "priced"} ]_vars
    /\ [][ (pc = "evaluate" /\ Truthy(last'.eval)
            /\ entry_hit(opportunities[i].pair, opportunities[i].entry,
                         opportunities[i].direction, last'.eval))
             => NotifierInvoked(last') ]_vars
    /\ \A o \in OppUniverse :
          (enabled /\ NotifierFailed(last) /\ last.opp = o)
             ~> (HasRow(history, o) \/ ~Tracked(o))

\* the notifier has failed for an opportunity at the end of a pass: the
\* opportunity is tracked, its key is not in the ledger, the next pass takes
\* it up again
C4_Witness ==
    /\ enabled
    /\ NotifierFailed(last)
    /\ last.resp = "status0"
    /\ Tracked(last.opp)
    /\ ~HasRow(history, last.opp)
    /\ pc = "top"

\* C7: check_entry_point, on the price it has, returns True exactly when the
\* direction is BUY and price <= entry + tol, or the direction is SELL and
\* price >= entry - tol, with tol = max(10 pips, 0.1% of the entry) and the
\* pip 0.01 for a pair containing JPY, 0.0001 otherwise; EUR/USD BUY at
\* 1.10000 is hit by 1.10105 and not by 1.10200.
C7_HitCondition ==
    (call.op = "check_entry_point" /\ Truthy(call.rate)) =>
        LET pip == IF ContainsJPY(call.pair) THEN Rat(1, 100) ELSE Rat(1, 10000)
            tol == RatMax(RatMul(Rat(10, 1), pip),
                          RatDiv(RatMul(call.entry, Rat(1, 10)), Rat(100, 1)))
        IN  /\ call.hit <=>
                 \/ /\ call.direction = "BUY"
                    /\ RatLeq(call.rate, RatAdd(call.entry, tol))
                 \/ /\ call.direction = "SELL"
                    /\ RatLeq(RatSub(call.entry, tol), call.rate)
            /\ (call.pair = EURUSD /\ call.entry = Rat(11, 10) /\ call.direction = "BUY")
                  => /\ call.rate = Rat(22021, 20000) => call.hit
                     /\ call.rate = Rat(551, 500) => ~call.hit

\* GBP/JPY BUY at 75.00 is hit by 75.09 through the 0.01 pip of a JPY pair
C7_Witness ==
    /\ call.op = "check_entry_point"
    /\ call.pair = GBPJPY /\ call.entry = Rat(75, 1) /\ call.direction = "BUY"
    /\ call.rate = Rat(7509, 100)
    /\ call.hit

\* C8: the evaluation of an opportunity is made on the price the pass has
\* looked up for it, and leaves the cache of the price lookup as it is.
C8_EvaluationIsPure ==
    [][ (pc = "evaluate" /\ last'.outcome # "raised")
          => (cache' = cache /\ last'.eval = current_price) ]_vars

\* C9: the rate of a pair without EUR is rate(EUR, quote) / rate(EUR, base)
\* when both leg rates are there (0.80 and 150.0 give 187.5), and None when
\* one of them is not.
C9_CrossRate ==
    (call.op \in {"get_rate", "check_entry_point"} /\ call.cross) =>
        IF Truthy(call.rate_base) /\ Truthy(call.rate_quote)
        THEN /\ Truthy(call.rate)
             /\ RatMul(call.rate, call.rate_base) = call.rate_quote
             /\ (call.rate_base = Rat(4, 5) /\ call.rate_quote = Rat(150, 1))
                   => call.rate = Rat(375, 2)
        ELSE call.rate = None

C9_Witness ==
    /\ call.op = "get_rate"
    /\ call.pair = GBPJPY
    /\ call.rate_base = Rat(4, 5) /\ call.rate_quote = Rat(150, 1)
    /\ call.rate = Rat(375, 2)

\* C10: get_rate lets no exception through to its caller; it returns None
\* for a malformed pair (no str, no slash, more than one slash) and when a
\* request to the feed raised or was answered without the rate.
C10_NoException ==
    call.op = "get_rate" =>
        LET malformed ==
                \/ call.pair = NonString
                \/ Cardinality({k \in DOMAIN call.pair : call.pair[k] = "/"}) # 1
        IN  /\ ~call.propagated
            /\ (malformed \/ call.feed_failed) => call.rate = None

C10_Witness ==
    /\ call.op = "get_rate"
    /\ call.pair = <<"EUR", "/", "USD", "/", "JPY">>
    /\ call.raised
    /\ call.rate = None
    /\ ~call.propagated

\* C11: a leg rate answered from the cache was fetched for that leg less
\* than cache_ttl seconds before the call.
C11_ServedFresh ==
    call.op \in {"get_rate", "check_entry_point"} => call.stale = {}

\* the rows of h are all entries, as record_alert writes them
AllEntries(h) == \A k \in DOMAIN h : IsDict(h[k])

\* C12: after record_alert(opportunity, price) has_alerted(opportunity) is
\* true on the same history and, when the file was written, on a history
\* loaded from the file; has_alerted of an opportunity that has no row of
\* its pair, direction and rounded entry is false on both.
C12_RoundTrip ==
    (call.op = "record_alert" /\ AllEntries(history)) =>
        /\ has_alerted(history, call.opp) = "True"
        /\ call.io = "ok" =>
               /\ has_alerted(_load_history(history_file), call.opp) = "True"
               /\ _load_history(history_file) = history
        /\ \A o \in LedgerOpps :
               /\ ~HasRow(history, o) => has_alerted(history, o) = "False"
               /\ ~HasRow(_load_history(history_file), o) =>
                      has_alerted(_load_history(history_file), o) = "False"

C12_Witness ==
    /\ call.op = "record_alert"
    /\ call.io = "ok"
    /\ call.opp = OppA
    /\ has_alerted(_load_history(history_file), OppA) = "True"
    /\ has_alerted(_load_history(history_file), OppSell) = "False"
    /\ Len(history) = 2

\* C13: the key of an opportunity equals the key of a recorded row exactly
\* when the two have the same pair, the same direction and the same entry
\* after rounding to 5 digits, whatever the recommendation, position_size,
\* exit, stop_loss and source of the opportunity are.
C13_KeyIdentity ==
    (call.op = "has_alerted" /\ AllEntries(history)) =>
        /\ \A k \in DOMAIN history :
               history[k].key = _create_alert_key(call.opp) <=> SameKey(history[k], call.opp)
        /\ \A o \in LedgerOpps :
               _create_alert_key(o) = _create_alert_key(call.opp) <=> SameKey(o, call.opp)
        /\ call.result = "True" <=> HasRow(history, call.opp)

C13_Witness ==
    /\ call.op = "has_alerted"
    /\ call.opp = OppA2
    /\ call.result = "True"
    /\ \E k \in DOMAIN history : history[k].direction = "SELL"
    /\ \E o \in LedgerOpps :
          /\ o.pair = OppA2.pair /\ o.direction = OppA2.direction /\ o.entry # OppA2.entry
          /\ has_alerted(history, o) = "False"

\* the step is a call of record_alert whose write of the file failed
RecordWriteFailed ==
    /\ call'.op = "record_alert"
    /\ call'.io # "ok"
    /\ (history' # history \/ history_file' # history_file \/ call' # call)

\* C14: a record_alert whose write fails does not raise and keeps the row it
\* appended in memory, so has_alerted is true for the opportunity from then
\* on until the process ends or the row is pruned, while the file holds
\* nothing new: a history loaded from it has the rows it had before or none,
\* and no row for the key unless an earlier record had stored one.
C14_WriteFailureKeepsMemory ==
    [][ /\ RecordWriteFailed =>
             /\ ~call'.raised
             /\ Len(history') = Len(history) + 1
             /\ SubSeq(history', 1, Len(history)) = history
             /\ SameKey(history'[Len(history')], call'.opp)
             /\ AllEntries(history) => has_alerted(history', call'.opp) = "True"
             /\ _load_history(history_file') \in {_load_history(history_file), <<>>}
             /\ ~HasRow(_load_history(history_file), call'.opp) =>
                    ~HasRow(_load_history(history_file'), call'.opp)
        /\ \A o \in LedgerOpps :
              (/\ AllEntries(history)
               /\ has_alerted(history, o) = "True"
               /\ call'.op \notin {"cleanup_old_alerts", "restart"}) =>
                  has_alerted(history', o) = "True" ]_vars

C14_Witness ==
    /\ call.op = "record_alert"
    /\ call.io = "dump_fails"
    /\ ~call.raised
    /\ has_alerted(history, call.opp) = "True"
    /\ history_file = FileCorrupt
    /\ has_alerted(_load_history(history_file), call.opp) = "False"

\* the file holds what record_alert and cleanup_old_alerts write: a JSON
\* array of entries
WellFormed(f) == f.state = "ok" /\ AllEntries(f.rows)

\* C15: AlertHistory() over a file that is missing or does not hold an array
\* of entries starts with an empty history, and no has_alerted raises.
C15_CorruptStoreLoadsEmpty ==
    /\ (call.op \in {"none", "restart"} /\ ~WellFormed(history_file)) => history = <<>>
    /\ call.op = "has_alerted" => ~call.raised

\* the step is a call of cleanup_old_alerts that returned
PruneStep ==
    /\ call'.op = "cleanup_old_alerts"
    /\ ~call'.raised
    /\ (history' # history \/ history_file' # history_file \/ call' # call)

\* the rows of h written at the cutoff or later, by their place in h
KeptPlaces(h, cutoff) == {k \in DOMAIN h : h[k].sent_at >= cutoff}

\* C16 as stated: after a cleanup_old_alerts that returned, with a file that
\* can be written, the file holds the history, whether rows were removed or
\* not.
C16_PrunePersists ==
    (call.op = "cleanup_old_alerts" /\ ~call.raised /\ call.io = "ok") =>
        _load_history(history_file) = history

\* C16 amended: cleanup_old_alerts(days) removes exactly the rows whose
\* sent_at is before now minus days and keeps the others as they were and
\* in their order; it writes the file only when it removed a row, and after
\* a successful write the file holds the history; when it removed nothing
\* the file is left as it was.
C16_PruneExact ==
    [][ PruneStep =>
          LET K == KeptPlaces(history, today - call'.days)
          IN  /\ Len(history') = Cardinality(K)
              /\ \A j \in DOMAIN history' :
                     history'[j] = history[CHOOSE k \in K : Cardinality({m \in K : m <= k}) = j]
              /\ call'.result = Len(history) - Cardinality(K)
              /\ (call'.result > 0 /\ call'.io = "ok") => history_file' = FileOf(history')
              /\ call'.result = 0 => history_file' = history_file ]_vars

C16_Witness ==
    /\ call.op = "cleanup_old_alerts"
    /\ ~call.raised
    /\ call.result = 1
    /\ call.io = "ok"
    /\ Len(history) = 1
    /\ history[1].sent_at = today - call.days
    /\ history_file = FileOf(history)

\* the last step was an analysis whose synthesis text went through the parser
AnalysisParsed == last.op = "analysis" /\ last.outcome = "parsed"

\* C17: after an analysis whose text is parsed into at least one
\* opportunity the tracked list is the parsed list, and an opportunity
\* tracked before is tracked only if it was parsed again.
C17_ReplacedWholesale ==
    (AnalysisParsed /\ last.parsed # <<>>) =>
        /\ opportunities = last.parsed
        /\ \A o \in Range(last.previous) : Tracked(o) => o \in Range(last.parsed)

C17_Witness ==
    /\ AnalysisParsed
    /\ last.parsed # <<>>
    /\ opportunities = last.parsed
    /\ \E o \in Range(last.previous) : ~Tracked(o)
    /\ \E o \in Range(last.previous) : Tracked(o)

\* C18: after an analysis whose text is parsed into no opportunity nothing
\* is tracked, so the pass that follows finds no opportunity to look at.
C18_DiscardedOnEmpty ==
    (AnalysisParsed /\ last.parsed = <<>>) => opportunities = <<>>

\* C19: every opportunity the parser returns, from records or from text,
\* has a pair of the catalog, the direction BUY or SELL, and an entry that is
\* a finite number greater than 0.
C19_ValidOpportunity ==
    call.op \in {"_parse_json", "_parse_text"} =>
        \A k \in DOMAIN call.result :
            /\ InCatalog(call.result[k].pair)
            /\ call.result[k].direction \in {"BUY", "SELL"}
            /\ call.result[k].entry # None
            /\ call.result[k].entry.d > 0
            /\ call.result[k].entry.n > 0

\* the places of text where pair is mentioned
Mentions(text, pair) == {j \in DOMAIN text : text[j].mention = pair}

\* C20: _parse_text returns at most one opportunity for a pair, however
\* often the text mentions it, and that opportunity is read from the first
\* section that mentions the pair: the pair is in the result exactly when
\* that section holds an entry.
C20_OncePerPair ==
    call.op = "_parse_text" =>
        /\ \A a, b \in DOMAIN call.result :
               a # b => call.result[a].pair # call.result[b].pair
        /\ \A k \in DOMAIN call.result :
               \E j \in Mentions(call.input, call.result[k].pair) :
                  /\ \A m \in Mentions(call.input, call.result[k].pair) : j <= m
                  /\ call.result[k].entry = call.input[j].entry
                  /\ call.result[k].direction = (IF call.input[j].sell THEN "SELL" ELSE "BUY")
                  /\ call.result[k].recommendation = call.input[j].body
        /\ \A j \in DOMAIN call.input :
               (/\ \A m \in Mentions(call.input, call.input[j].mention) : j <= m
                /\ Truthy(call.input[j].entry)) =>
                   \E k \in DOMAIN call.result : call.result[k].pair = call.input[j].mention

C20_Witness ==
    /\ call.op = "_parse_text"
    /\ Len(call.input) = 2
    /\ call.input[1].mention = call.input[2].mention
    /\ Truthy(call.input[1].entry)
    /\ Truthy(call.input[2].entry)
    /\ call.input[1].entry # call.input[2].entry
    /\ Len(call.result) = 1
    /\ call.result[1].entry = call.input[1].entry

\* the place of the first mention of pair in text
FirstMention(text, pair) == CHOOSE j \in Mentions(text, pair) : \A m \in Mentions(text, pair) : j <= m

\* C21: the opportunities _parse_text returns are in the order in which
\* the text first mentions their pairs, and those _parse_json returns are in
\* the order of their records.
C21_OrderOfAppearance ==
    /\ call.op = "_parse_text" =>
          \A a, b \in DOMAIN call.result :
              a < b => FirstMention(call.input, call.result[a].pair)
                         < FirstMention(call.input, call.result[b].pair)
    /\ call.op = "_parse_json" =>
          \E f \in [DOMAIN call.result -> DOMAIN call.input] :
              /\ \A a, b \in DOMAIN call.result : a < b => f[a] < f[b]
              /\ \A a \in DOMAIN call.result :
                     call.result[a] = _extract_opportunity_from_dict(call.input[f[a]])

\* a record _parse_json is to keep: an object with a pair of the catalog
\* under some spelling, an entry that is a number other than 0, and an exit
\* and a stop that are numbers or absent
WellFormedRecord(data) ==
    /\ "nondict" \notin DOMAIN data
    /\ ~Fields(data).raised
    /\ _normalize_pair(Fields(data).pair) # <<>>
    /\ Fields(data).entry \notin {None, NotFloat}
    /\ Fields(data).entry.n # 0
    /\ Fields(data).exit # NotFloat
    /\ Fields(data).stop_loss # NotFloat

\* the place in data of its k-th well-formed record
NthWellFormed(data, k) ==
    CHOOSE j \in DOMAIN data :
        /\ WellFormedRecord(data[j])
        /\ Cardinality({m \in 1..j : WellFormedRecord(data[m])}) = k

DirectionWords ==
    {"sell", "Sell", "SELL", "short", "Short", "SHORT", "bearish", "Bearish", "BEARISH"}

\* C23: the opportunity read from a section has the direction SELL exactly
\* when the section holds the word sell, short or bearish in some letter
\* case, and BUY otherwise; the section Entry: 1.1000 Target: 1.1100 Stop
\* Loss: 1.0950 of EUR/USD yields one opportunity, with entry 1.1, exit
\* 1.11, stop_loss 1.095 and direction BUY.
C23_DirectionFromWords ==
    call.op = "_extract_opportunity_from_text" =>
        /\ Len(call.result) <= 1
        /\ \A k \in DOMAIN call.result :
               call.result[k].direction =
                  (IF \E j \in DOMAIN call.input : call.input[j].w \in DirectionWords
                   THEN "SELL" ELSE "BUY")
        /\ call.input = Scenario =>
               /\ Len(call.result) = 1
               /\ call.result[1].pair = EURUSD
               /\ call.result[1].entry = Rat(11, 10)
               /\ call.result[1].exit = Rat(111, 100)
               /\ call.result[1].stop_loss = Rat(219, 200)
               /\ call.result[1].direction = "BUY"

C23_Witness ==
    /\ call.op = "_extract_opportunity_from_text"
    /\ \E j \in DOMAIN call.input : call.input[j].w = "BEARISH"
    /\ \A j \in DOMAIN call.input : call.input[j].w \notin {"sell", "SELL", "Short"}
    /\ Len(call.result) = 1
    /\ call.result[1].direction = "SELL"
    /\ call.result[1].exit = Rat(111, 100)
    /\ call.result[1].stop_loss = Rat(219, 200)

\* the pair a raw spelling stands for: its two codes in upper case around
\* a slash
Canonical(raw) == <<Upper(raw[1]), "/", Upper(raw[Len(raw)])>>

\* C24: _normalize_pair returns a pair of the catalog or nothing: the pair
\* itself for a pair of the catalog, its pair of the catalog for a spelling
\* in lower case, without the slash, or with underscores or spaces, and
\* nothing for a spelling of a pair that is not in the catalog.
C24_NormalizeToCatalog ==
    call.op = "_normalize_pair" =>
        /\ call.result = <<>> \/ InCatalog(call.result)
        /\ InCatalog(call.input) => call.result = call.input
        /\ InCatalog(Canonical(call.input)) => call.result = Canonical(call.input)
        /\ ~InCatalog(Canonical(call.input)) => call.result = <<>>

C24_Witness ==
    /\ call.op = "_normalize_pair"
    /\ call.input = <<"eur", "_", "_", "usd">>
    /\ call.result = EURUSD

\* C25: the entry point of the parser returns, for a payload that is JSON,
\* what structured mode extracts from it, and for any other payload what
\* text mode extracts from it; it does not raise.
C25_ModeDetected ==
    call.op = "parse_file" =>
        /\ \A k \in DOMAIN call.result : call.result[k] # Raised
        /\ call.result = (IF call.input.json THEN _parse_json(call.input.data)
                          ELSE _parse_text(call.input.sections))

\* the step is a direct call of _get_frankfurter_rate
LegStep ==
    /\ call'.op = "_get_frankfurter_rate"
    /\ (call' # call \/ cache' # cache \/ cache_age' # cache_age)

\* C26: a leg lookup answers from the cache, without a request, exactly
\* when the leg is in the cache and less than cache_ttl seconds have passed
\* since cache_time; otherwise it asks the feed. A fetch that succeeds
\* stores the rate of that leg, leaves the other legs, and sets cache_time
\* to now; a fetch that fails returns None and leaves the cache and
\* cache_time as they were.
C26_CacheContract ==
    [][ LegStep =>
          LET key == call'.pair
              fresh == key \in DOMAIN cache /\ call'.elapsed < cache_ttl
          IN  /\ call'.fetched <=> ~fresh
              /\ ~call'.fetched =>
                    /\ call'.rate = cache[key]
                    /\ cache' = cache
                    /\ cache_age' = call'.elapsed
              /\ (call'.fetched /\ ~call'.feed_failed) =>
                    /\ DOMAIN cache' = DOMAIN cache \cup {key}
                    /\ cache'[key] = call'.rate
                    /\ \A k \in DOMAIN cache : k # key => cache'[k] = cache[k]
                    /\ cache_age' = 0
              /\ call'.feed_failed =>
                    /\ call'.rate = None
                    /\ cache' = cache
                    /\ cache_age' = call'.elapsed ]_vars

C26_Witness ==
    /\ call.op = "_get_frankfurter_rate"
    /\ ~call.fetched
    /\ call.elapsed = TimeStep
    /\ Truthy(call.rate)
    /\ Cardinality(DOMAIN cache) = 2

\* two clock readings fall into the window of the same scheduled time
SameWindow(a, b) ==
    \E scheduled_time \in scheduled_times :
        /\ _times_match(MinuteOfDay(a), scheduled_time)
        /\ _times_match(MinuteOfDay(b), scheduled_time)

\* C27: the main loop starts the full analysis at most once per scheduled
\* window: an analysis is never started at a tick that lies in the same
\* window (within 5 minutes of the same scheduled time) as the tick of the
\* previous start.
C27_OncePerWindow ==
    [][ (last_analysis_time' # last_analysis_time /\ last_analysis_time # NoTime)
          => ~SameWindow(last_analysis_time, last_analysis_time') ]_vars

\* C28: when a notification is sent for an opportunity, the price handed to
\* the notifier, and written to the ledger row when the send succeeded, is
\* the price on which the entry condition was evaluated as hit.
C28_SentPriceIsEvaluated ==
    (last.op = "evaluate" /\ last.outcome \in {"alerted", "send_failed"}) =>
        /\ last.sent = last.eval
        /\ last.outcome = "alerted" =>
              history[Len(history)].current_price = last.eval

\* the step is an analysis cycle that ended before the parser was reached
FailedCycle ==
    /\ pc = "top"
    /\ last'.op = "analysis"
    /\ last'.outcome \in AnalysisOutcomes \ {"parsed"}

\* C29: an analysis cycle that does not reach the parser (reader disabled,
\* no files, no download, no synthesis text, an exception) leaves the
\* tracked list and the ledger, in memory and on file, as they were, and
\* returns to the main loop, which goes on to the pass over that list.
C29_FailedCycleKeepsSet ==
    [][ FailedCycle =>
          /\ opportunities' = opportunities
          /\ history' = history
          /\ history_file' = history_file
          /\ pc' = "check" ]_vars

C29_Witness ==
    /\ last.op = "analysis"
    /\ last.outcome = "exception"
    /\ pc = "check"
    /\ Len(opportunities) = 2
    /\ history # <<>>

\* C30: in structured mode a record without direction, type and action is
\* parsed as BUY, and a direction value is parsed into the same direction
\* whichever of the three keys carries it.
C30_SynonymsAlike ==
    call.op = "_extract_opportunity_from_dict" =>
        /\ \A key \in DOMAIN call.result : Len(call.result[key]) = 1
        /\ call.result["none"][1].direction = "BUY"
        /\ \A k1, k2 \in DirectionKeys :
              call.result[k1][1].direction = call.result[k2][1].direction

====
